---- MODULE Spec2Model ----
(***************************************************************************)
(* Model of the Amazon Q code-transformation orchestrator                  *)
(* (packages/core/src/codewhisperer/commands/startTransformByQ.ts).        *)
(*                                                                         *)
(* One run of startTransformByQ is a linear sequence of suspending steps;  *)
(* the variable pc is the position of the run between two suspension       *)
(* points.  stopTransformByQ is a second control flow (a UI command) that  *)
(* interleaves with the run at those suspension points; stopPc is its      *)
(* position.  Both share the process-wide transformByQState.               *)
(***************************************************************************)
EXTENDS Integers, Sequences, FiniteSets, TLC

\* Number of runs of startTransformByQ a behaviour may hold.
MaxRuns == 2

VARIABLES
    status,                 \* transformByQState.getStatus()
    jobId,                  \* transformByQState.getJobId(), a sequence of characters
    payloadFilePath,        \* transformByQState.getPayloadFilePath()
    jobFailureErrorMessage, \* transformByQState.getJobFailureErrorMessage()
    jobFailureMetadata,     \* transformByQState.getJobFailureMetadata()
    sessionPlanProgress,    \* the four steps' StepProgress
    sessionJobHistory,      \* the module-level run history
    timers,                 \* runs whose setInterval timer is active
    pc,                     \* position of the current run of startTransformByQ
    error,                  \* message of the error in flight to the catch block
    retJobId,               \* jobId local of startTransformByQ (raw, as returned by startJob)
    polledStatus,           \* status local of the poll: what the last status request returned
    runs,                   \* number of runs started; also the start time of the run
    escaped,                \* runs that ended with an exception leaving startTransformByQ
    stopPc,                 \* position of the call of stopTransformByQ
    stopArg,                \* jobId parameter of the call of stopTransformByQ
    stopRun,                \* the run the call of stopTransformByQ cancelled
    cancelRequested,        \* a call of stopTransformByQ cancelled the current run
    notifications,          \* per run, the messages shown to the user
    remoteJobs,             \* job ids the remote service started
    stopCalls,              \* codeModernizerStopCodeTransformation requests issued
    files,                  \* archive files present in the temporary directory
    folders,                \* runs whose dependency folder is present
    invocation,             \* position of each of the overlapping calls of startTransformByQ
    sha256,                 \* checksum of the archive an upload is prepared for
    kmsKeyArn,              \* KMS key ARN of that upload; empty when there is none
    headersObj,             \* the header map of that upload
    stopRequests            \* whether each call of stopTransformByQ found the job running, in call order

vars == << status, jobId, payloadFilePath, jobFailureErrorMessage, jobFailureMetadata,
           sessionPlanProgress, sessionJobHistory, timers, pc, error, retJobId,
           polledStatus, runs, escaped, stopPc, stopArg, stopRun,
           cancelRequested, notifications, remoteJobs, stopCalls, files, folders,
           invocation, sha256, kmsKeyArn, headersObj, stopRequests >>

jobState == << status, jobId, payloadFilePath, jobFailureErrorMessage, jobFailureMetadata >>
runLocals == << error, retJobId, polledStatus >>
stopVars == << stopPc, stopArg, stopRun >>
remoteVars == << remoteJobs, stopCalls >>
otherVars == << invocation, sha256, kmsKeyArn, headersObj, stopRequests >>

-----------------------------------------------------------------------------
(* Values *)

Statuses == {"NotStarted", "Running", "Succeeded", "PartiallySucceeded", "Failed", "Cancelled"}

Steps == {"startJob", "buildCode", "generatePlan", "transformCode"}

NoJobId == << >>

\* The transformation job id the remote service returns to run r.
RemoteJobId(r) == << "j", "o", "b", "-", ToString(r) >>

\* Statuses codeModernizerGetCodeTransformation reports.
RemoteStatuses == {"STARTED", "PLANNED", "TRANSFORMING", "COMPLETED", "PARTIALLY_COMPLETED", "FAILED"}

validStatesForPlanGenerated == {"PLANNED", "TRANSFORMING", "COMPLETED", "PARTIALLY_COMPLETED"}

validStatesForCheckingDownloadUrl == {"COMPLETED", "PARTIALLY_COMPLETED", "FAILED"}

failureStates == {"FAILED"}

failedToStartJobMessage == "failedToStartJobMessage"

failedToCompleteJobMessage == "failedToCompleteJobMessage"

TransformByQStoppedError == "TransformByQStoppedError"

zippedCodePath == "zipped-code.zip"

projectName == "my-module"

transformByQCompletedMessage == "transformByQCompletedMessage"

transformByQPartiallyCompletedMessage == "transformByQPartiallyCompletedMessage"

transformByQCancelledMessage == "transformByQCancelledMessage"

errorStoppingJobMessage == "errorStoppingJobMessage"

\* calculateTotalLatency: the elapsed time of a run, in milliseconds.
durationInMs == 65000

-----------------------------------------------------------------------------
(* Pure functions *)

\* encodeHTML: the characters of markup are replaced by their entities.
encodeHTMLChar(c) ==
    CASE c = "<" -> << "&", "l", "t", ";" >>
      [] c = ">" -> << "&", "g", "t", ";" >>
      [] c = "&" -> << "&", "a", "m", "p", ";" >>
      [] OTHER -> << c >>

RECURSIVE encodeHTML(_)
encodeHTML(str) ==
    IF str = << >> THEN << >>
    ELSE encodeHTMLChar(Head(str)) \o encodeHTML(Tail(str))

\* convertToTimeString: "<h> hr <m> min <s> sec", the hours and the minutes
\* left out when they are zero.
convertToTimeString(ms) ==
    LET seconds == (ms \div 1000) % 60
        minutes == (ms \div 60000) % 60
        hours == (ms \div 3600000) % 24
        s == << seconds, "sec" >>
        m == IF minutes > 0 THEN << minutes, "min" >> \o s ELSE s
    IN  IF hours > 0 THEN << hours, "hr" >> \o m ELSE m

\* convertDateToTimestamp of the start time of a run.
convertDateToTimestamp(startTime) == << "started", startTime >>

-----------------------------------------------------------------------------
(* transformByQState, transformApiHandler *)

isRunning == status = "Running"

isCancelled == status = "Cancelled"

isSucceeded == status = "Succeeded"

isPartiallySucceeded == status = "PartiallySucceeded"

\* throwIfCancelled raises TransformByQStoppedError when the status is Cancelled.
throwIfCancelled == isCancelled

\* stopJob that sends the request whatever the id.
stopJobAlwaysSends(id) == << id >>

\* stopJob(id): the ids of the stop requests it sends; none for an empty id.
stopJob(id) == IF id = NoJobId THEN << >> ELSE << id >>

\* setJobDefaults: every field of the job back to its default.
setJobDefaults ==
    /\ status' = "NotStarted"
    /\ jobId' = NoJobId
    /\ payloadFilePath' = ""
    /\ jobFailureErrorMessage' = ""
    /\ jobFailureMetadata' = ""

\* processHistory without the reset of the history.
processHistoryAppends(history, startTime, module, st, duration, id) ==
    Append(history, [timestamp |-> startTime, module |-> module, status |-> st,
                     duration |-> duration, id |-> id])

\* processHistory: the history is replaced by the entry of the last run.
processHistory(history, startTime, module, st, duration, id) ==
    LET reset == << >>
        copyState == [timestamp |-> startTime, module |-> module, status |-> st,
                      duration |-> duration, id |-> id]
    IN  Append(reset, copyState)

getJobHistory == sessionJobHistory

getPlanProgress == sessionPlanProgress

\* window.showInformationMessage / showErrorMessage in run r.
Notify(r, kind, message) ==
    notifications' = [notifications EXCEPT ![r] = Append(@, [kind |-> kind, message |-> message])]

\* An error is thrown inside the try block of startTransformByQ.
Throw(message) ==
    /\ error' = message
    /\ pc' = "catch"

-----------------------------------------------------------------------------
\* The state of the module once it is loaded.
Loaded ==
    /\ status = "NotStarted"
    /\ jobId = NoJobId
    /\ payloadFilePath = ""
    /\ jobFailureErrorMessage = ""
    /\ jobFailureMetadata = ""
    /\ sessionPlanProgress = [s \in Steps |-> "Pending"]
    /\ sessionJobHistory = << >>
    /\ timers = {}
    /\ pc = "idle"
    /\ error = ""
    /\ retJobId = NoJobId
    /\ polledStatus = ""
    /\ runs = 0
    /\ escaped = {}
    /\ stopPc = "idle"
    /\ stopArg = NoJobId
    /\ stopRun = 0
    /\ cancelRequested = FALSE
    /\ notifications = [r \in 1..MaxRuns |-> << >>]
    /\ remoteJobs = {}
    /\ stopCalls = << >>
    /\ files = {}
    /\ folders = {}

\* No header map computed yet.
NoHeaders == [k \in {} |-> ""]

Init ==
    /\ Loaded
    /\ invocation = [i \in 1..MaxRuns |-> "idle"]
    /\ sha256 = ""
    /\ kmsKeyArn = ""
    /\ headersObj = NoHeaders
    /\ stopRequests = << >>

-----------------------------------------------------------------------------
(* startTransformByQ *)

\* compileProject: the step before a run.  The dependency folder of the coming
\* run is recorded and prepareProjectDependencies fills it; when that raises,
\* the logs are shown, the error is rethrown and no run starts.
compileProject ==
    /\ pc \in {"idle", "done"}
    /\ runs < MaxRuns
    /\ folders' = folders \cup {runs + 1}
    /\ \/ pc' = "compiled"
       \/ runs + 1 \notin folders /\ pc' = pc
    /\ UNCHANGED << jobState, sessionPlanProgress, sessionJobHistory, timers, runLocals,
                    runs, escaped, stopVars, cancelRequested, notifications, remoteVars,
                    files, otherVars >>

\* setTransformationToRunningState: the run begins.
setTransformationToRunningState ==
    /\ pc = "compiled"
    /\ runs < MaxRuns
    /\ runs' = runs + 1
    /\ status' = "Running"
    /\ sessionPlanProgress' = [s \in Steps |-> "Pending"]
    /\ cancelRequested' = FALSE
    /\ error' = ""
    /\ retJobId' = NoJobId
    /\ polledStatus' = ""
    /\ pc' = "setInterval"
    /\ UNCHANGED << jobId, payloadFilePath, jobFailureErrorMessage, jobFailureMetadata,
                    sessionJobHistory, timers, escaped, stopVars, notifications,
                    remoteVars, files, folders, otherVars >>

\* The UI refresh timer is set; the run enters preTransformationUploadCode.
setIntervalTimer ==
    /\ pc = "setInterval"
    /\ timers' = timers \cup {runs}
    /\ pc' = "preUpload"
    /\ UNCHANGED << jobState, sessionPlanProgress, sessionJobHistory, runLocals, runs,
                    escaped, stopVars, cancelRequested, notifications, remoteVars, files, folders, otherVars >>

\* preTransformationUploadCode: the cancellation check before the archive is built.
preUploadCheck ==
    /\ pc = "preUpload"
    /\ IF throwIfCancelled THEN Throw(TransformByQStoppedError)
       ELSE pc' = "zipCode" /\ error' = error
    /\ UNCHANGED << jobState, sessionPlanProgress, sessionJobHistory, timers, retJobId,
                    polledStatus, runs, escaped, stopVars, cancelRequested,
                    notifications, remoteVars, files, folders, otherVars >>

\* zipCode builds the archive, or fails; the failure is logged and raised again.
zipCode ==
    /\ pc = "zipCode"
    /\ \/ /\ files' = files \cup {zippedCodePath}
          /\ payloadFilePath' = zippedCodePath
          /\ pc' = "uploadPayload"
          /\ error' = error
       \/ /\ Throw("ArchiveBuildError")
          /\ UNCHANGED << files, payloadFilePath >>
    /\ UNCHANGED << status, jobId, jobFailureErrorMessage, jobFailureMetadata,
                    sessionPlanProgress, sessionJobHistory, timers, retJobId, polledStatus,
                    runs, escaped, stopVars, cancelRequested, notifications, remoteVars,
                    folders, otherVars >>

\* uploadPayload transfers the archive, or fails; the failure is logged and raised again.
uploadPayload ==
    /\ pc = "uploadPayload"
    /\ \/ pc' = "sleepAfterUpload" /\ error' = error
       \/ Throw("UploadError")
    /\ UNCHANGED << jobState, sessionPlanProgress, sessionJobHistory, timers, retJobId,
                    polledStatus, runs, escaped, stopVars, cancelRequested,
                    notifications, remoteVars, files, folders, otherVars >>

\* preTransformationUploadCode resuming after its delay without the
\* cancellation check.
postUploadCheckNoCheck ==
    /\ pc = "sleepAfterUpload"
    /\ pc' = "startJob"
    /\ error' = error
    /\ UNCHANGED << jobState, sessionPlanProgress, sessionJobHistory, timers, retJobId,
                    polledStatus, runs, escaped, stopVars, cancelRequested,
                    notifications, remoteVars, files, folders, otherVars >>

\* The delay after the upload ends; the cancellation check after it.
postUploadCheck ==
    /\ pc = "sleepAfterUpload"
    /\ IF throwIfCancelled THEN Throw(TransformByQStoppedError)
       ELSE pc' = "startJob" /\ error' = error
    /\ UNCHANGED << jobState, sessionPlanProgress, sessionJobHistory, timers, retJobId,
                    polledStatus, runs, escaped, stopVars, cancelRequested,
                    notifications, remoteVars, files, folders, otherVars >>

\* startTransformationJob that tries startJob again when it fails.
startTransformationJobRetries ==
    /\ pc = "startJob"
    /\ \/ /\ remoteJobs' = remoteJobs \cup {RemoteJobId(runs)}
          /\ retJobId' = RemoteJobId(runs)
          /\ jobId' = encodeHTML(RemoteJobId(runs))
          /\ pc' = "sleepAfterStart"
          /\ UNCHANGED << error, jobFailureErrorMessage >>
       \/ /\ jobFailureErrorMessage' = failedToStartJobMessage
          /\ pc' = "startJob"
          /\ UNCHANGED << error, remoteJobs, retJobId, jobId >>
    /\ UNCHANGED << status, payloadFilePath, jobFailureMetadata, sessionPlanProgress,
                    sessionJobHistory, timers, polledStatus, runs, escaped,
                    stopVars, cancelRequested, notifications, stopCalls, files, folders, otherVars >>

\* startTransformationJob: startJob returns the id of the job the service
\* started, which is stored encoded; or it fails and is not tried again.
startTransformationJob ==
    /\ pc = "startJob"
    /\ \/ /\ remoteJobs' = remoteJobs \cup {RemoteJobId(runs)}
          /\ retJobId' = RemoteJobId(runs)
          /\ jobId' = encodeHTML(RemoteJobId(runs))
          /\ pc' = "sleepAfterStart"
          /\ UNCHANGED << error, jobFailureErrorMessage >>
       \/ /\ jobFailureErrorMessage' = failedToStartJobMessage
          /\ Throw("Start job failed")
          /\ UNCHANGED << remoteJobs, retJobId, jobId >>
    /\ UNCHANGED << status, payloadFilePath, jobFailureMetadata, sessionPlanProgress,
                    sessionJobHistory, timers, polledStatus, runs, escaped,
                    stopVars, cancelRequested, notifications, stopCalls, files, folders, otherVars >>

\* The delay after the start ends; the cancellation check after it.
postStartCheck ==
    /\ pc = "sleepAfterStart"
    /\ IF throwIfCancelled THEN Throw(TransformByQStoppedError)
       ELSE pc' = "pollPlanGet" /\ error' = error
    /\ UNCHANGED << jobState, sessionPlanProgress, sessionJobHistory, timers, retJobId,
                    polledStatus, runs, escaped, stopVars, cancelRequested,
                    notifications, remoteVars, files, folders, otherVars >>

-----------------------------------------------------------------------------
(* pollTransformationJob, as used by the two polling steps *)

\* An iteration of pollTransformationJob that does not look at the
\* cancellation flag (the poll checks it on entry only).
PollIterateNoCheck(sleeping, requesting) ==
    /\ pc = sleeping
    /\ pc' = requesting
    /\ UNCHANGED << error, jobFailureErrorMessage >>
    /\ UNCHANGED << status, jobId, payloadFilePath, jobFailureMetadata, sessionPlanProgress,
                    sessionJobHistory, timers, retJobId, polledStatus, runs,
                    escaped, stopVars, cancelRequested, notifications, remoteVars, files, folders, otherVars >>

\* An iteration of the poll begins after the polling interval: the
\* cancellation check, then the status request.  A poll that raises is
\* reported by its caller as 'Poll job failed' with the failure message set.
PollIterate(sleeping, requesting) ==
    /\ pc = sleeping
    /\ IF throwIfCancelled
       THEN /\ jobFailureErrorMessage' = failedToCompleteJobMessage
            /\ Throw("Poll job failed")
       ELSE /\ pc' = requesting
            /\ UNCHANGED << error, jobFailureErrorMessage >>
    /\ UNCHANGED << status, jobId, payloadFilePath, jobFailureMetadata, sessionPlanProgress,
                    sessionJobHistory, timers, retJobId, polledStatus, runs,
                    escaped, stopVars, cancelRequested, notifications, remoteVars, files, folders, otherVars >>

\* The status request of a poll failed, or returned a failure status that is
\* not accepted: the poll raises.
PollRaises(metadata) ==
    /\ jobFailureMetadata' = metadata
    /\ jobFailureErrorMessage' = failedToCompleteJobMessage
    /\ Throw("Poll job failed")

-----------------------------------------------------------------------------
(* pollTransformationStatusUntilPlanReady *)

pollPlanIterate == PollIterate("pollPlanSleep", "pollPlanGet")

\* The status request of the plan poll returns, and the poll ends with
\* whatever status it returned.
pollPlanStatusAcceptsAny ==
    /\ pc = "pollPlanGet"
    /\ \E st \in RemoteStatuses :
           /\ pc' = "getPlan"
           /\ polledStatus' = st
    /\ UNCHANGED << error, jobFailureErrorMessage, jobFailureMetadata >>
    /\ UNCHANGED << status, jobId, payloadFilePath, sessionPlanProgress, sessionJobHistory,
                    timers, retJobId, runs, escaped, stopVars,
                    cancelRequested, notifications, remoteVars, files, folders, otherVars >>

\* The status request of the plan poll returns.
pollPlanStatus ==
    /\ pc = "pollPlanGet"
    /\ \/ \E st \in RemoteStatuses :
             IF st \in validStatesForPlanGenerated
             THEN /\ pc' = "getPlan"
                  /\ polledStatus' = st
                  /\ UNCHANGED << error, jobFailureErrorMessage, jobFailureMetadata >>
             ELSE IF st \in failureStates
             THEN /\ PollRaises("job failed")
                  /\ polledStatus' = st
             ELSE /\ pc' = "pollPlanSleep"
                  /\ polledStatus' = st
                  /\ UNCHANGED << error, jobFailureErrorMessage, jobFailureMetadata >>
       \/ /\ PollRaises(jobFailureMetadata)
          /\ polledStatus' = polledStatus
    /\ UNCHANGED << status, jobId, payloadFilePath, sessionPlanProgress, sessionJobHistory,
                    timers, retJobId, runs, escaped, stopVars,
                    cancelRequested, notifications, remoteVars, files, folders, otherVars >>

\* getTransformationPlan whose failure sets the message but lets the run go
\* on to show a plan.
getTransformationPlanSwallowsError ==
    /\ pc = "getPlan"
    /\ \/ /\ pc' = "showPlan"
          /\ UNCHANGED << error, jobFailureErrorMessage >>
       \/ /\ jobFailureErrorMessage' = failedToCompleteJobMessage
          /\ pc' = "showPlan"
          /\ error' = error
    /\ UNCHANGED << status, jobId, payloadFilePath, jobFailureMetadata, sessionPlanProgress,
                    sessionJobHistory, timers, retJobId, polledStatus, runs,
                    escaped, stopVars, cancelRequested, notifications, remoteVars, files, folders, otherVars >>

\* getTransformationPlan returns the plan, or fails.
getTransformationPlan ==
    /\ pc = "getPlan"
    /\ \/ /\ pc' = "showPlan"
          /\ UNCHANGED << error, jobFailureErrorMessage >>
       \/ /\ jobFailureErrorMessage' = failedToCompleteJobMessage
          /\ Throw("Get plan failed")
    /\ UNCHANGED << status, jobId, payloadFilePath, jobFailureMetadata, sessionPlanProgress,
                    sessionJobHistory, timers, retJobId, polledStatus, runs,
                    escaped, stopVars, cancelRequested, notifications, remoteVars, files, folders, otherVars >>

\* The plan is shown: generatePlan is marked, then the cancellation check;
\* the run goes on to pollTransformationStatusUntilComplete, whose status
\* starts empty.
planPersisted ==
    /\ pc = "showPlan"
    /\ sessionPlanProgress' = [sessionPlanProgress EXCEPT !["generatePlan"] = "Succeeded"]
    /\ IF throwIfCancelled
       THEN Throw(TransformByQStoppedError) /\ polledStatus' = polledStatus
       ELSE pc' = "pollCompleteGet" /\ error' = error /\ polledStatus' = ""
    /\ UNCHANGED << jobState, sessionJobHistory, timers, retJobId, runs, escaped, stopVars,
                    cancelRequested, notifications, remoteVars, files, folders, otherVars >>

-----------------------------------------------------------------------------
(* pollTransformationStatusUntilComplete, finalizeTransformationJob *)

pollCompleteIterate == PollIterate("pollCompleteSleep", "pollCompleteGet")

\* finalizeTransformationJob that marks the run Failed itself when the job
\* did not complete, whatever the status is.
finalizeTransformationJobSetsFailed(st) ==
    IF ~(st = "COMPLETED" \/ st = "PARTIALLY_COMPLETED")
    THEN /\ sessionPlanProgress' = [sessionPlanProgress EXCEPT !["transformCode"] = "Failed"]
         /\ jobFailureErrorMessage' = failedToCompleteJobMessage
         /\ Throw("Job was not successful nor partially successful")
         /\ status' = "Failed"
    ELSE /\ status' = IF st = "PARTIALLY_COMPLETED" THEN "PartiallySucceeded" ELSE "Succeeded"
         /\ pc' = "reviewChanges"
         /\ UNCHANGED << sessionPlanProgress, jobFailureErrorMessage, error >>

\* finalizeTransformationJob that calls setToSucceeded before it tests the
\* status of the job.
finalizeTransformationJobSucceedsFirst(st) ==
    IF ~(st = "COMPLETED" \/ st = "PARTIALLY_COMPLETED")
    THEN /\ sessionPlanProgress' = [sessionPlanProgress EXCEPT !["transformCode"] = "Failed"]
         /\ jobFailureErrorMessage' = failedToCompleteJobMessage
         /\ Throw("Job was not successful nor partially successful")
         /\ status' = "Succeeded"
    ELSE /\ status' = IF st = "PARTIALLY_COMPLETED" THEN "PartiallySucceeded" ELSE "Succeeded"
         /\ pc' = "reviewChanges"
         /\ UNCHANGED << sessionPlanProgress, jobFailureErrorMessage, error >>

\* finalizeTransformationJob without the call of setToPartiallySucceeded.
finalizeTransformationJobForgetsPartial(st) ==
    IF ~(st = "COMPLETED" \/ st = "PARTIALLY_COMPLETED")
    THEN /\ sessionPlanProgress' = [sessionPlanProgress EXCEPT !["transformCode"] = "Failed"]
         /\ jobFailureErrorMessage' = failedToCompleteJobMessage
         /\ Throw("Job was not successful nor partially successful")
         /\ status' = status
    ELSE /\ status' = "Succeeded"
         /\ pc' = "reviewChanges"
         /\ UNCHANGED << sessionPlanProgress, jobFailureErrorMessage, error >>

\* finalizeTransformationJob(st), up to its first suspension.
finalizeTransformationJob(st) ==
    IF ~(st = "COMPLETED" \/ st = "PARTIALLY_COMPLETED")
    THEN /\ sessionPlanProgress' = [sessionPlanProgress EXCEPT !["transformCode"] = "Failed"]
         /\ jobFailureErrorMessage' = failedToCompleteJobMessage
         /\ Throw("Job was not successful nor partially successful")
         /\ status' = status
    ELSE /\ status' = IF st = "PARTIALLY_COMPLETED" THEN "PartiallySucceeded" ELSE "Succeeded"
         /\ pc' = "reviewChanges"
         /\ UNCHANGED << sessionPlanProgress, jobFailureErrorMessage, error >>

\* The status request of the completion poll returns; an accepted status is
\* handed to finalizeTransformationJob.
pollCompleteStatus ==
    /\ pc = "pollCompleteGet"
    /\ \/ \E st \in RemoteStatuses :
             IF st \in validStatesForCheckingDownloadUrl
             THEN /\ polledStatus' = st
                  /\ finalizeTransformationJob(st)
                  /\ jobFailureMetadata' = jobFailureMetadata
             ELSE IF st \in failureStates
             THEN /\ PollRaises("job failed")
                  /\ polledStatus' = st
                  /\ UNCHANGED << status, sessionPlanProgress >>
             ELSE /\ pc' = "pollCompleteSleep"
                  /\ polledStatus' = st
                  /\ UNCHANGED << error, status, sessionPlanProgress,
                                  jobFailureErrorMessage, jobFailureMetadata >>
       \/ /\ PollRaises(jobFailureMetadata)
          /\ UNCHANGED << polledStatus, status, sessionPlanProgress >>
    /\ UNCHANGED << jobId, payloadFilePath, sessionJobHistory, timers, retJobId, runs, escaped, stopVars, cancelRequested, notifications,
                    remoteVars, files, folders, otherVars >>

\* finalizeTransformationJob that returns without marking transformCode.
reviewChangesRevealedLeavesStep ==
    /\ pc = "reviewChanges"
    /\ sessionPlanProgress' = sessionPlanProgress
    /\ pc' = "post"
    /\ UNCHANGED << jobState, sessionJobHistory, timers, runLocals, runs, escaped, stopVars,
                    cancelRequested, notifications, remoteVars, files, folders, otherVars >>

\* finalizeTransformationJob after the review panel is revealed.
reviewChangesRevealed ==
    /\ pc = "reviewChanges"
    /\ sessionPlanProgress' = [sessionPlanProgress EXCEPT !["transformCode"] = "Succeeded"]
    /\ pc' = "post"
    /\ UNCHANGED << jobState, sessionJobHistory, timers, runLocals, runs, escaped, stopVars,
                    cancelRequested, notifications, remoteVars, files, folders, otherVars >>

-----------------------------------------------------------------------------
(* catch and finally of startTransformByQ *)

\* The error handler without the test of isCancelled.
transformationJobErrorHandlerAlwaysFails ==
    /\ pc = "catch"
    /\ status' = "Failed"
    /\ Notify(runs, "Failure", << jobFailureErrorMessage >>)
    /\ pc' = "post"
    /\ UNCHANGED << jobId, payloadFilePath, jobFailureErrorMessage, jobFailureMetadata,
                    sessionPlanProgress, sessionJobHistory, timers, runLocals, runs,
                    escaped, stopVars, cancelRequested, remoteVars, files, folders, otherVars >>

\* transformationJobErrorHandler(error)
transformationJobErrorHandler ==
    /\ pc = "catch"
    /\ IF ~isCancelled
       THEN /\ status' = "Failed"
            /\ Notify(runs, "Failure",
                      IF jobFailureMetadata # ""
                      THEN << jobFailureErrorMessage, jobFailureMetadata >>
                      ELSE << jobFailureErrorMessage >>)
       ELSE UNCHANGED << status, notifications >>
    /\ pc' = "post"
    /\ UNCHANGED << jobId, payloadFilePath, jobFailureErrorMessage, jobFailureMetadata,
                    sessionPlanProgress, sessionJobHistory, timers, runLocals, runs,
                    escaped, stopVars, cancelRequested, remoteVars, files, folders, otherVars >>

\* postTransformationJob without the test of the startJob step.
postTransformationJobSkipsStartJob ==
    /\ pc = "post"
    /\ sessionPlanProgress' =
           [s \in Steps |-> IF s # "startJob" /\ sessionPlanProgress[s] # "Succeeded"
                            THEN "Failed" ELSE sessionPlanProgress[s]]
    /\ pc' = "getVersionData"
    /\ UNCHANGED << jobState, sessionJobHistory, timers, error, retJobId, polledStatus,
                    runs, escaped, stopVars, cancelRequested, notifications, remoteVars,
                    files, folders, otherVars >>

\* postTransformationJob, up to getVersionData: every step that is not
\* Succeeded becomes Failed, and the latency of the run is taken.
postTransformationJob ==
    /\ pc = "post"
    /\ sessionPlanProgress' =
           [s \in Steps |-> IF sessionPlanProgress[s] # "Succeeded" THEN "Failed"
                            ELSE sessionPlanProgress[s]]
    /\ pc' = "getVersionData"
    /\ UNCHANGED << jobState, sessionJobHistory, timers, error, retJobId, polledStatus,
                    runs, escaped, stopVars, cancelRequested, notifications, remoteVars,
                    files, folders, otherVars >>

\* postTransformationJob after getVersionData, without the fs.rmSync of the
\* archive.
postTransformationRecordKeepsArchive ==
    /\ pc = "getVersionData"
    /\ sessionJobHistory' = processHistory(sessionJobHistory, convertDateToTimestamp(runs),
                                           projectName, status,
                                           convertToTimeString(durationInMs), jobId)
    /\ IF isSucceeded THEN Notify(runs, "Completed", << transformByQCompletedMessage >>)
       ELSE IF isPartiallySucceeded
       THEN Notify(runs, "PartiallyCompleted", << transformByQPartiallyCompletedMessage >>)
       ELSE notifications' = notifications
    /\ pc' = "cleanup"
    /\ UNCHANGED << files, escaped >>
    /\ UNCHANGED << jobState, sessionPlanProgress, timers, runLocals, runs, stopVars,
                    cancelRequested, remoteVars, folders, otherVars >>

\* postTransformationJob after getVersionData: the history entry, the
\* notification of a success, and the deletion of the archive, which
\* fs.rmSync may refuse with an exception.
postTransformationRecord ==
    /\ pc = "getVersionData"
    /\ sessionJobHistory' = processHistory(sessionJobHistory, convertDateToTimestamp(runs),
                                           projectName, status,
                                           convertToTimeString(durationInMs), jobId)
    /\ IF isSucceeded THEN Notify(runs, "Completed", << transformByQCompletedMessage >>)
       ELSE IF isPartiallySucceeded
       THEN Notify(runs, "PartiallyCompleted", << transformByQPartiallyCompletedMessage >>)
       ELSE notifications' = notifications
    /\ IF payloadFilePath # ""
       THEN \/ /\ files' = files \ {payloadFilePath}
               /\ pc' = "cleanup"
               /\ escaped' = escaped
            \/ /\ files' = files
               /\ pc' = "done"
               /\ escaped' = escaped \cup {runs}
       ELSE /\ pc' = "cleanup"
            /\ UNCHANGED << files, escaped >>
    /\ UNCHANGED << jobState, sessionPlanProgress, timers, runLocals, runs, stopVars,
                    cancelRequested, remoteVars, folders, otherVars >>

\* cleanupTransformationJob(intervalId)
cleanupTransformationJob ==
    /\ pc = "cleanup"
    /\ timers' = timers \ {runs}
    /\ setJobDefaults
    /\ pc' = "done"
    /\ UNCHANGED << sessionPlanProgress, sessionJobHistory, runLocals, runs, escaped,
                    stopVars, cancelRequested, notifications, remoteVars, files, folders, otherVars >>

-----------------------------------------------------------------------------
(* stopTransformByQ *)

\* An error raised in the try block of startTransformByQ is on its way to the
\* catch block: rejections travel through the awaits without the event loop
\* taking another task, and transformationJobErrorHandler runs up to its end
\* without suspending, so no other task starts or resumes before it has run.
ErrorInFlight == pc = "catch"

\* stopTransformByQ that does not set the status before it suspends.
stopTransformByQCancelsLate ==
    /\ stopPc = "idle"
    /\ ~ErrorInFlight
    /\ IF isRunning
       THEN /\ stopArg' = jobId
            /\ stopRun' = runs
            /\ stopPc' = "stopJob"
                        /\ cancelRequested' = TRUE
       ELSE UNCHANGED << stopArg, stopRun, stopPc, cancelRequested >>
    /\ UNCHANGED << jobState, sessionPlanProgress, sessionJobHistory, timers, pc, runLocals,
                    runs, escaped, notifications, remoteVars, files, folders, otherVars >>

\* stopTransformByQ(jobId), called with the job id of the state, up to its
\* first suspension.
stopTransformByQ ==
    /\ stopPc = "idle"
    /\ ~ErrorInFlight
    /\ IF isRunning
       THEN /\ status' = "Cancelled"
            /\ stopArg' = jobId
            /\ stopRun' = runs
            /\ stopPc' = "stopJob"
                        /\ cancelRequested' = TRUE
       ELSE UNCHANGED << status, stopArg, stopRun, stopPc, cancelRequested >>
    /\ UNCHANGED << jobId, payloadFilePath, jobFailureErrorMessage, jobFailureMetadata,
                    sessionPlanProgress, sessionJobHistory, timers, pc, runLocals, runs,
                    escaped, notifications, remoteVars, files, folders, otherVars >>

\* stopTransformByQ whose catch block also marks the job Failed.
stopJobReturnsMarksFailed ==
    /\ stopPc = "stopJob"
    /\ ~ErrorInFlight
    /\ stopCalls' = stopCalls \o stopJob(stopArg)
    /\ \/ /\ Notify(stopRun, "Cancelled", << transformByQCancelledMessage >>)
          /\ status' = status
       \/ /\ stopJob(stopArg) # << >>
          /\ Notify(stopRun, "ErrorStopping", << errorStoppingJobMessage >>)
          /\ status' = "Failed"
    /\ stopPc' = "idle"
    /\ stopArg' = NoJobId
    /\ stopRun' = 0
    /\ UNCHANGED << jobId, payloadFilePath, jobFailureErrorMessage, jobFailureMetadata,
                    sessionPlanProgress, sessionJobHistory, timers, pc, runLocals,
                    runs, escaped, cancelRequested, remoteJobs,
                    files, folders, otherVars >>

\* stopTransformByQ from stopJob on: the stop request, which may fail, and
\* the notification of the cancellation or of the failure to stop.
stopJobReturns ==
    /\ stopPc = "stopJob"
    /\ ~ErrorInFlight
    /\ stopCalls' = stopCalls \o stopJob(stopArg)
    /\ \/ Notify(stopRun, "Cancelled", << transformByQCancelledMessage >>)
       \/ /\ stopJob(stopArg) # << >>
          /\ Notify(stopRun, "ErrorStopping", << errorStoppingJobMessage >>)
    /\ stopPc' = "idle"
    /\ stopArg' = NoJobId
    /\ stopRun' = 0
    /\ UNCHANGED << jobState, sessionPlanProgress, sessionJobHistory, timers, pc, runLocals,
                    runs, escaped, cancelRequested, remoteJobs,
                    files, folders, otherVars >>

-----------------------------------------------------------------------------
Next ==
    \/ compileProject
    \/ setTransformationToRunningState
    \/ setIntervalTimer
    \/ preUploadCheck
    \/ zipCode
    \/ uploadPayload
    \/ postUploadCheck
    \/ startTransformationJob
    \/ postStartCheck
    \/ pollPlanIterate
    \/ pollPlanStatus
    \/ getTransformationPlan
    \/ planPersisted
    \/ pollCompleteIterate
    \/ pollCompleteStatus
    \/ reviewChangesRevealed
    \/ transformationJobErrorHandler
    \/ postTransformationJob
    \/ postTransformationRecord
    \/ cleanupTransformationJob
    \/ stopTransformByQ
    \/ stopJobReturns

Spec == Init /\ [][Next]_vars

TypeOK ==
    /\ status \in Statuses
    /\ sessionPlanProgress \in [Steps -> {"Pending", "Succeeded", "Failed"}]
    /\ runs \in 0..MaxRuns
    /\ timers \subseteq 1..MaxRuns
    /\ escaped \subseteq 1..MaxRuns
    /\ stopPc \in {"idle", "stopJob"}
    /\ files \subseteq {zippedCodePath}
    /\ folders \subseteq 1..MaxRuns

-----------------------------------------------------------------------------
(* getHeadersObj: the headers of the upload of the archive *)

\* Number of checksums and of KMS key ARNs an upload is prepared with.
MaxChecksums == 7
MaxKmsKeys == 6

Checksums == {"dummy-sha-256"} \cup {"sha-" \o ToString(n) : n \in 1..MaxChecksums}

\* The empty ARN stands for an upload without a KMS key.
KmsKeyArns == {"", "dummy-kms-key-arn"} \cup {"arn-" \o ToString(n) : n \in 1..MaxKmsKeys}

EncryptionHeaders ==
    {"x-amz-server-side-encryption", "x-amz-server-side-encryption-aws-kms-key-id"}

\* getHeadersObj that always writes the two encryption fields.
getHeadersObjEmptyValued(sha, kmsArn) ==
    [k \in {"x-amz-checksum-sha256", "Content-Type"} \cup EncryptionHeaders |->
        IF k = "x-amz-checksum-sha256" THEN sha
        ELSE IF k = "Content-Type" THEN "application/zip"
        ELSE IF kmsArn = "" THEN ""
        ELSE IF k = "x-amz-server-side-encryption" THEN "aws:kms"
        ELSE kmsArn]

\* getHeadersObj(sha256, kmsKeyArn)
getHeadersObj(sha, kmsArn) ==
    LET headers == [k \in {"x-amz-checksum-sha256", "Content-Type"} |->
                        IF k = "x-amz-checksum-sha256" THEN sha ELSE "application/zip"]
    IN  IF kmsArn # ""
        THEN [k \in DOMAIN headers \cup EncryptionHeaders |->
                 IF k \in DOMAIN headers THEN headers[k]
                 ELSE IF k = "x-amz-server-side-encryption" THEN "aws:kms"
                 ELSE kmsArn]
        ELSE headers

\* An upload is prepared for an archive with some checksum and KMS key.
InitHeaders ==
    /\ Loaded
    /\ invocation = [i \in 1..MaxRuns |-> "idle"]
    /\ stopRequests = << >>
    /\ sha256 \in Checksums
    /\ kmsKeyArn \in KmsKeyArns
    /\ headersObj = NoHeaders

\* uploadArtifactToS3 asks for the headers of its request.
buildHeaders ==
    /\ headersObj = NoHeaders
    /\ headersObj' = getHeadersObj(sha256, kmsKeyArn)
    /\ UNCHANGED << status, jobId, payloadFilePath, jobFailureErrorMessage,
                    jobFailureMetadata, sessionPlanProgress, sessionJobHistory, timers, pc,
                    error, retJobId, polledStatus, runs, escaped, stopPc, stopArg, stopRun,
                    cancelRequested, notifications, remoteJobs, stopCalls, files, folders,
                    invocation, sha256, kmsKeyArn, stopRequests >>

\* The next upload is prepared, for another archive and key.
nextUpload ==
    /\ headersObj # NoHeaders
    /\ sha256' \in Checksums
    /\ kmsKeyArn' \in KmsKeyArns
    /\ headersObj' = NoHeaders
    /\ UNCHANGED << status, jobId, payloadFilePath, jobFailureErrorMessage,
                    jobFailureMetadata, sessionPlanProgress, sessionJobHistory, timers, pc,
                    error, retJobId, polledStatus, runs, escaped, stopPc, stopArg, stopRun,
                    cancelRequested, notifications, remoteJobs, stopCalls, files, folders,
                    invocation, stopRequests >>

NextHeaders ==
    \/ buildHeaders
    \/ nextUpload

SpecHeaders == InitHeaders /\ [][NextHeaders]_vars

-----------------------------------------------------------------------------
(* stopTransformByQ, every call of it recorded *)

\* Number of calls of stopTransformByQ that are recorded.
MaxStopRequests == 2

\* stopTransformByQ that does not test isRunning.
stopTransformByQCallNoTest ==
    /\ Len(stopRequests) < MaxStopRequests
    /\ ~ErrorInFlight
    /\ stopPc = "idle"
    /\ stopRequests' = Append(stopRequests, isRunning)
    /\ status' = "Cancelled"
    /\ stopArg' = jobId
    /\ stopRun' = runs
    /\ stopPc' = "stopJob"
    /\ cancelRequested' = TRUE
    /\ UNCHANGED << jobId, payloadFilePath, jobFailureErrorMessage, jobFailureMetadata,
                    sessionPlanProgress, sessionJobHistory, timers, pc, runLocals, runs,
                    escaped, notifications, remoteVars, files, folders,
                    invocation, sha256, kmsKeyArn, headersObj >>

\* A call of stopTransformByQ(jobId) up to its first suspension or, when the
\* job is not running, up to its return; the call may arrive while an earlier
\* one is still waiting for stopJob. Whether it finds the job running is recorded.
stopTransformByQCall ==
    /\ Len(stopRequests) < MaxStopRequests
    /\ ~ErrorInFlight
    /\ stopPc = "idle" \/ ~isRunning
    /\ stopRequests' = Append(stopRequests, isRunning)
    /\ IF isRunning
       THEN /\ status' = "Cancelled"
            /\ stopArg' = jobId
            /\ stopRun' = runs
            /\ stopPc' = "stopJob"
            /\ cancelRequested' = TRUE
       ELSE UNCHANGED << status, stopArg, stopRun, stopPc, cancelRequested >>
    /\ UNCHANGED << jobId, payloadFilePath, jobFailureErrorMessage, jobFailureMetadata,
                    sessionPlanProgress, sessionJobHistory, timers, pc, runLocals, runs,
                    escaped, notifications, remoteVars, files, folders,
                    invocation, sha256, kmsKeyArn, headersObj >>

NextStop ==
    \/ compileProject
    \/ setTransformationToRunningState
    \/ setIntervalTimer
    \/ preUploadCheck
    \/ zipCode
    \/ uploadPayload
    \/ postUploadCheck
    \/ startTransformationJob
    \/ postStartCheck
    \/ pollPlanIterate
    \/ pollPlanStatus
    \/ getTransformationPlan
    \/ planPersisted
    \/ pollCompleteIterate
    \/ pollCompleteStatus
    \/ reviewChangesRevealed
    \/ transformationJobErrorHandler
    \/ postTransformationJob
    \/ postTransformationRecord
    \/ cleanupTransformationJob
    \/ stopTransformByQCall
    \/ stopJobReturns

SpecStop == Init /\ [][NextStop]_vars

-----------------------------------------------------------------------------
(* startTransformByQ called again while an earlier call is in progress *)

\* The calls of startTransformByQ: call i is the caller of invocation[i].
Invocations == 1..MaxRuns

\* What the overlapping calls leave alone.
overlapFixed ==
    << pc, runLocals, runs, stopVars, cancelRequested, stopCalls, folders,
       sha256, kmsKeyArn, headersObj, stopRequests >>

\* Call i moves on to position p.
Reaches(i, p) == invocation' = [invocation EXCEPT ![i] = p]

\* An error raised in the try block of call i reaches the catch block:
\* transformationJobErrorHandler with the failure message and metadata the
\* failing step left in the state.
Caught(i, message, metadata) ==
    /\ IF ~isCancelled
       THEN /\ status' = "Failed"
            /\ Notify(i, "Failure",
                      IF metadata # "" THEN << message, metadata >> ELSE << message >>)
       ELSE UNCHANGED << status, notifications >>
    /\ Reaches(i, "post")

\* startTransformByQ that begins a run only when no other call is in progress.
overlapBeginsGuarded(i) ==
    /\ invocation[i] = "idle"
    /\ \A j \in Invocations : invocation[j] \in {"idle", "done"}
    /\ status' = "Running"
    /\ sessionPlanProgress' = [s \in Steps |-> "Pending"]
    /\ timers' = timers \cup {i}
    /\ Reaches(i, "upload")
    /\ UNCHANGED << jobId, payloadFilePath, jobFailureErrorMessage, jobFailureMetadata,
                    sessionJobHistory, escaped, notifications, remoteJobs, files,
                    overlapFixed >>

\* Call i of startTransformByQ begins: setTransformationToRunningState and
\* the timer, whatever the other calls are doing.
overlapBegins(i) ==
    /\ invocation[i] = "idle"
    /\ status' = "Running"
    /\ sessionPlanProgress' = [s \in Steps |-> "Pending"]
    /\ timers' = timers \cup {i}
    /\ Reaches(i, "upload")
    /\ UNCHANGED << jobId, payloadFilePath, jobFailureErrorMessage, jobFailureMetadata,
                    sessionJobHistory, escaped, notifications, remoteJobs, files,
                    overlapFixed >>

\* preTransformationUploadCode of call i: the archive is built and uploaded,
\* or the step raises.
overlapUploads(i) ==
    /\ invocation[i] = "upload"
    /\ IF throwIfCancelled
       THEN /\ Caught(i, jobFailureErrorMessage, jobFailureMetadata)
            /\ UNCHANGED << files, payloadFilePath >>
       ELSE \/ /\ files' = files \cup {zippedCodePath}
               /\ payloadFilePath' = zippedCodePath
               /\ \/ /\ Reaches(i, "startJob")
                     /\ UNCHANGED << status, notifications >>
                  \/ Caught(i, jobFailureErrorMessage, jobFailureMetadata)
            \/ /\ Caught(i, jobFailureErrorMessage, jobFailureMetadata)
               /\ UNCHANGED << files, payloadFilePath >>
    /\ UNCHANGED << jobId, jobFailureErrorMessage, jobFailureMetadata, sessionPlanProgress,
                    sessionJobHistory, timers, escaped, remoteJobs, overlapFixed >>

\* startTransformationJob of call i.
overlapStartsJob(i) ==
    /\ invocation[i] = "startJob"
    /\ \/ /\ remoteJobs' = remoteJobs \cup {RemoteJobId(i)}
          /\ jobId' = encodeHTML(RemoteJobId(i))
          /\ Reaches(i, "pollPlan")
          /\ UNCHANGED << status, notifications, jobFailureErrorMessage >>
       \/ /\ jobFailureErrorMessage' = failedToStartJobMessage
          /\ Caught(i, failedToStartJobMessage, jobFailureMetadata)
          /\ UNCHANGED << remoteJobs, jobId >>
    /\ UNCHANGED << payloadFilePath, jobFailureMetadata, sessionPlanProgress,
                    sessionJobHistory, timers, escaped, files, overlapFixed >>

\* pollTransformationStatusUntilPlanReady of call i: the plan is ready and
\* shown, or the poll or the fetch of the plan raises.
overlapPlans(i) ==
    /\ invocation[i] = "pollPlan"
    /\ \/ /\ sessionPlanProgress' = [sessionPlanProgress EXCEPT !["generatePlan"] = "Succeeded"]
          /\ Reaches(i, "pollComplete")
          /\ UNCHANGED << status, notifications, jobFailureErrorMessage >>
       \/ /\ jobFailureErrorMessage' = failedToCompleteJobMessage
          /\ Caught(i, failedToCompleteJobMessage, jobFailureMetadata)
          /\ sessionPlanProgress' = sessionPlanProgress
    /\ UNCHANGED << jobId, payloadFilePath, jobFailureMetadata, sessionJobHistory, timers,
                    escaped, remoteJobs, files, overlapFixed >>

\* pollTransformationStatusUntilComplete and finalizeTransformationJob of
\* call i.
overlapFinalizes(i) ==
    /\ invocation[i] = "pollComplete"
    /\ \/ \E st \in validStatesForCheckingDownloadUrl :
             IF ~(st = "COMPLETED" \/ st = "PARTIALLY_COMPLETED")
             THEN /\ sessionPlanProgress' =
                         [sessionPlanProgress EXCEPT !["transformCode"] = "Failed"]
                  /\ jobFailureErrorMessage' = failedToCompleteJobMessage
                  /\ Caught(i, failedToCompleteJobMessage, jobFailureMetadata)
             ELSE /\ status' = IF st = "PARTIALLY_COMPLETED" THEN "PartiallySucceeded"
                               ELSE "Succeeded"
                  /\ sessionPlanProgress' =
                         [sessionPlanProgress EXCEPT !["transformCode"] = "Succeeded"]
                  /\ Reaches(i, "post")
                  /\ UNCHANGED << notifications, jobFailureErrorMessage >>
       \/ /\ jobFailureErrorMessage' = failedToCompleteJobMessage
          /\ Caught(i, failedToCompleteJobMessage, jobFailureMetadata)
          /\ sessionPlanProgress' = sessionPlanProgress
    /\ UNCHANGED << jobId, payloadFilePath, jobFailureMetadata, sessionJobHistory, timers,
                    escaped, remoteJobs, files, overlapFixed >>

\* postTransformationJob of call i: the steps, the history entry, the
\* notification of a success and the deletion of the archive.
overlapRecords(i) ==
    /\ invocation[i] = "post"
    /\ sessionPlanProgress' =
           [s \in Steps |-> IF sessionPlanProgress[s] # "Succeeded" THEN "Failed"
                            ELSE sessionPlanProgress[s]]
    /\ sessionJobHistory' = processHistory(sessionJobHistory, convertDateToTimestamp(i),
                                           projectName, status,
                                           convertToTimeString(durationInMs), jobId)
    /\ IF isSucceeded THEN Notify(i, "Completed", << transformByQCompletedMessage >>)
       ELSE IF isPartiallySucceeded
       THEN Notify(i, "PartiallyCompleted", << transformByQPartiallyCompletedMessage >>)
       ELSE notifications' = notifications
    /\ IF payloadFilePath # ""
       THEN \/ /\ files' = files \ {payloadFilePath}
               /\ Reaches(i, "cleanup")
               /\ escaped' = escaped
            \/ /\ files' = files
               /\ Reaches(i, "done")
               /\ escaped' = escaped \cup {i}
       ELSE /\ Reaches(i, "cleanup")
            /\ UNCHANGED << files, escaped >>
    /\ UNCHANGED << jobState, timers, remoteJobs, overlapFixed >>

\* cleanupTransformationJob of call i.
overlapCleansUp(i) ==
    /\ invocation[i] = "cleanup"
    /\ timers' = timers \ {i}
    /\ setJobDefaults
    /\ Reaches(i, "done")
    /\ UNCHANGED << sessionPlanProgress, sessionJobHistory, escaped, notifications,
                    remoteJobs, files, overlapFixed >>

NextOverlap ==
    \E i \in Invocations :
        \/ overlapBegins(i)
        \/ overlapUploads(i)
        \/ overlapStartsJob(i)
        \/ overlapPlans(i)
        \/ overlapFinalizes(i)
        \/ overlapRecords(i)
        \/ overlapCleansUp(i)

SpecOverlap == Init /\ [][NextOverlap]_vars

-----------------------------------------------------------------------------
(* Properties *)

\* Run r is over: startTransformByQ returned or raised.
RunOver(r) == r < runs \/ (r = runs /\ pc \in {"done", "compiled"})

\* The notifications of a kind shown in run r.
Shown(r, kind) == {i \in 1..Len(notifications[r]) : notifications[r][i].kind = kind}

\* The notifications of a kind shown in run r, in the next state.
ShownNext(r, kind) == {i \in 1..Len(notifications'[r]) : notifications'[r][i].kind = kind}

\* Positions of the run at which the next thing it does is throwIfCancelled.
CancellationChecks ==
    {"preUpload", "sleepAfterUpload", "sleepAfterStart", "showPlan",
     "pollPlanSleep", "pollCompleteSleep"}

\* C1: every run ends with the job state reset to its defaults (status
\* NotStarted, jobId empty) and with its UI refresh timer cleared.
C1_EndOfRunReset ==
    pc = "done" => status = "NotStarted" /\ jobId = NoJobId /\ runs \notin timers

\* C2: every run that is over, with no call of stopTransformByQ for it still
\* in progress, has shown exactly one terminal notification.
C2_ExactlyOneNotification ==
    \A r \in 1..MaxRuns :
        (RunOver(r) /\ ~(stopPc = "stopJob" /\ stopRun = r)) => Len(notifications[r]) = 1

\* Length of the prior histories processHistory is applied to.
MaxHistory == 2

\* Entries of earlier runs.
EarlierEntries ==
    {[timestamp |-> convertDateToTimestamp(1), module |-> projectName,
      status |-> "Succeeded", duration |-> convertToTimeString(10000),
      id |-> RemoteJobId(1)],
     [timestamp |-> convertDateToTimestamp(2), module |-> projectName,
      status |-> "Cancelled", duration |-> convertToTimeString(3700000),
      id |-> NoJobId]}

\* The histories of at most MaxHistory earlier entries.
PriorHistories == UNION {[1..n -> EarlierEntries] : n \in 0..MaxHistory}

\* The history entry of the current run, from the state it is recorded in.
CurrentEntry ==
    [timestamp |-> convertDateToTimestamp(runs), module |-> projectName, status |-> status,
     duration |-> convertToTimeString(durationInMs), id |-> jobId]

\* C3: the history never holds more than one entry; processHistory, applied
\* to any prior history with the arguments postTransformationJob gives it,
\* returns the one entry made of those arguments; and once a run has recorded
\* its entry, the history is that entry alone.
C3_HistoryOneEntry ==
    /\ Len(getJobHistory) <= 1
    /\ pc = "getVersionData" =>
           \A h \in PriorHistories :
               processHistory(h, convertDateToTimestamp(runs), projectName, status,
                              convertToTimeString(durationInMs), jobId) = << CurrentEntry >>
    /\ pc = "cleanup" => getJobHistory = << CurrentEntry >>
    /\ pc = "done" =>
           /\ Len(getJobHistory) = 1
           /\ getJobHistory[1].timestamp = convertDateToTimestamp(runs)
           /\ getJobHistory[1].duration = convertToTimeString(durationInMs)

C3_Witness ==
    /\ runs = 2
    /\ pc = "done"
    /\ Len(getJobHistory) = 1
    /\ getJobHistory[1].timestamp = convertDateToTimestamp(2)
    /\ getJobHistory[1].status = "Succeeded"

\* C4: once postTransformationJob has run, no step is Pending: it turns every
\* step that is not Succeeded into Failed and leaves a Succeeded step Succeeded.
C4_NoStepPendingAfterRun ==
    /\ [](pc \in {"getVersionData", "cleanup", "done"} =>
              \A s \in Steps : getPlanProgress[s] \in {"Succeeded", "Failed"})
    /\ [][pc = "post" /\ pc' # "post" =>
              \A s \in Steps :
                  sessionPlanProgress'[s] =
                      IF sessionPlanProgress[s] = "Succeeded" THEN "Succeeded" ELSE "Failed"]_vars

C4_Witness ==
    /\ pc = "done"
    /\ sessionPlanProgress["generatePlan"] = "Succeeded"
    /\ sessionPlanProgress["transformCode"] = "Failed"
    /\ sessionPlanProgress["startJob"] = "Failed"

\* C5: a call of stopTransformByQ that finds the status Running has set it to
\* Cancelled when it first suspends, and every cancellation check the run
\* makes after that raises.
C5_StopCancelsBeforeSuspending ==
    /\ [][stopPc = "idle" /\ stopPc' = "stopJob" => isRunning /\ status' = "Cancelled"]_vars
    /\ [][cancelRequested /\ pc \in CancellationChecks /\ pc' # pc =>
              pc' = "catch" /\ error' \in {TransformByQStoppedError, "Poll job failed"}]_vars

C5_Witness ==
    /\ cancelRequested
    /\ pc = "catch"
    /\ error = TransformByQStoppedError
    /\ stopPc = "stopJob"

\* C6: the error handler entered with the status Cancelled leaves it
\* Cancelled and shows nothing, whatever the error.
C6_HandlerKeepsCancelled ==
    [][pc = "catch" /\ isCancelled /\ pc' # pc =>
           status' = "Cancelled" /\ notifications' = notifications]_vars

C6_Witness ==
    /\ pc = "post"
    /\ isCancelled
    /\ error = "Start job failed"
    /\ Shown(runs, "Failure") = {}

\* C7: a run whose error handler found the status not Cancelled is Failed,
\* carries a failure message that is not empty, and has shown one failure
\* notification.
C7_FailureReported ==
    (pc = "post" /\ error # "" /\ ~isCancelled) =>
        /\ status = "Failed"
        /\ jobFailureErrorMessage # ""
        /\ Cardinality(Shown(runs, "Failure")) = 1

\* C8: when the call of stopTransformByQ that cancelled the current run has
\* returned and the remote job of the run exists, a stop request was issued
\* for that job.
C8_StartedJobIsStopped ==
    (cancelRequested /\ stopPc = "idle" /\ RemoteJobId(runs) \in remoteJobs) =>
        \E i \in 1..Len(stopCalls) : stopCalls[i] = RemoteJobId(runs)

\* C9: when the stop request of stopTransformByQ fails, one notification is
\* added and nothing else: the status stays what it was, and the run is not
\* handed an error.
C9_StopFailureOnlyNotifies ==
    [][(stopPc = "stopJob" /\ stopPc' = "idle"
        /\ ShownNext(stopRun, "ErrorStopping") # Shown(stopRun, "ErrorStopping")) =>
           /\ status' = status
           /\ pc' = pc
           /\ error' = error
           /\ \A r \in 1..MaxRuns :
                  Len(notifications'[r]) = Len(notifications[r]) + (IF r = stopRun THEN 1 ELSE 0)]_vars

C9_Witness ==
    /\ runs >= 1
    /\ stopPc = "idle"
    /\ cancelRequested
    /\ Shown(runs, "ErrorStopping") # {}
    /\ isCancelled

\* C10: stopJob with an empty job id sends no stop request and does not fail;
\* with a job id that is not empty it sends one stop request, for that id.
C10_StopJobRequests ==
    [][stopPc = "stopJob" /\ stopPc' = "idle" =>
           IF stopArg = NoJobId
           THEN /\ stopCalls' = stopCalls
                /\ ShownNext(stopRun, "ErrorStopping") = Shown(stopRun, "ErrorStopping")
           ELSE stopCalls' = Append(stopCalls, stopArg)]_vars

C10_Witness ==
    /\ stopPc = "idle"
    /\ stopCalls = << encodeHTML(RemoteJobId(2)) >>
    /\ Shown(1, "Cancelled") # {}
    /\ Shown(2, "Cancelled") # {}

\* Positions of the run at which the next thing it does is one of the four
\* checks that precede a major step: the archive build, the start call, the
\* plan polling and the completion polling.
StepChecks == {"preUpload", "sleepAfterUpload", "sleepAfterStart", "showPlan"}

\* Positions of the run after its try block was left by an error.
AfterError == {"catch", "post", "getVersionData", "cleanup"}

\* C11: each major step is preceded by a cancellation check.  A run whose
\* status is Cancelled when it reaches the check before the archive build, the
\* check after the post-upload delay, the check after the post-start delay or
\* the check after the plan is persisted raises the stopped error there: it
\* builds no archive, issues no start call, and, once the error is raised,
\* goes on to its error handler and finalization only, never to a later step.
C11_CheckBeforeEachStep ==
    /\ [][(isCancelled /\ pc \in StepChecks /\ pc' # pc) =>
              /\ pc' = "catch"
              /\ error' = TransformByQStoppedError
              /\ files' = files
              /\ payloadFilePath' = payloadFilePath
              /\ remoteJobs' = remoteJobs
              /\ jobId' = jobId]_vars
    /\ [][(pc \in AfterError) => (pc' \in AfterError \/ pc' = "done")]_vars

\* Cancelled during the post-upload delay: the archive was built, the start
\* call was never issued.
C11_Witness ==
    /\ runs = 1
    /\ pc = "catch"
    /\ error = TransformByQStoppedError
    /\ isCancelled
    /\ payloadFilePath = zippedCodePath
    /\ jobId = NoJobId
    /\ remoteJobs = {}

\* Positions of the run at which a poll waits between two status requests.
PollWaits == {"pollPlanSleep", "pollCompleteSleep"}

\* C12: the poller looks at the cancellation flag on every iteration.  When
\* the status is Cancelled while a poll waits between two status requests,
\* the next thing the poll does is to raise: it sends no further status
\* request and its caller raises the poll error.
C12_PollChecksEveryIteration ==
    [][(isCancelled /\ pc \in PollWaits /\ pc' # pc) =>
           /\ pc' = "catch"
           /\ error' = "Poll job failed"
           /\ polledStatus' = polledStatus]_vars

\* The completion poll was left by the cancellation check of a later
\* iteration: a status request had returned a status that is not accepted.
C12_Witness ==
    /\ pc = "catch"
    /\ error = "Poll job failed"
    /\ isCancelled
    /\ sessionPlanProgress["generatePlan"] = "Succeeded"
    /\ polledStatus = "TRANSFORMING"
    /\ jobFailureMetadata = ""

\* The completion poll returned a status to its caller, in the next state:
\* finalizeTransformationJob went on with it or raised its completion error.
CompletionPollReturned ==
    \/ pc' = "reviewChanges"
    \/ pc' = "catch" /\ error' = "Job was not successful nor partially successful"

\* C13: a poll ends successfully exactly when the status its request returned
\* is one of the accepted statuses, and returns that status: the plan poll
\* goes on to the plan exactly on a status of validStatesForPlanGenerated, the
\* completion poll hands a status to finalizeTransformationJob exactly on a
\* status of validStatesForCheckingDownloadUrl, and with the job at COMPLETED
\* the status handed over is COMPLETED.
C13_PollReturnsAcceptedStatus ==
    /\ [][(pc = "pollPlanGet" /\ pc' # pc) =>
              (pc' = "getPlan" <=> polledStatus' \in validStatesForPlanGenerated)]_vars
    /\ [][(pc = "pollCompleteGet" /\ pc' # pc) =>
              /\ CompletionPollReturned <=> polledStatus' \in validStatesForCheckingDownloadUrl
              /\ (CompletionPollReturned /\ polledStatus' = "COMPLETED") =>
                     (pc' = "reviewChanges" /\ status' = "Succeeded")]_vars

\* The completion poll returned COMPLETED to a run that was not stopped.
C13_Witness ==
    /\ pc = "reviewChanges"
    /\ polledStatus = "COMPLETED"
    /\ isSucceeded
    /\ ~cancelRequested

\* The statuses a run ends its steps with, other than Cancelled.
Outcomes == {"Succeeded", "PartiallySucceeded", "Failed"}

BeforeStartReturned ==
    {"setInterval", "preUpload", "zipCode", "uploadPayload", "sleepAfterUpload", "startJob"}

\* C16: jobId is empty in every state of a run before its start call has
\* returned successfully, a jobId that is not empty is the (encoded) id of the
\* job the current run started, and a failed start leaves it empty.
C16_JobIdOnlyAfterStart ==
    /\ pc \in BeforeStartReturned => jobId = NoJobId
    /\ (pc = "catch" /\ error = "Start job failed") => jobId = NoJobId
    /\ jobId # NoJobId =>
           /\ runs >= 1
           /\ jobId = encodeHTML(RemoteJobId(runs))
           /\ RemoteJobId(runs) \in remoteJobs

C18_DependencyFolderReleased ==
    (pc = "done" /\ runs \notin escaped) => runs \notin folders

\* The completion poll has handed status st to finalizeTransformationJob, in
\* this step.
Finalized(st) == pc = "pollCompleteGet" /\ pc' # pc /\ polledStatus' = st

\* The error finalizeTransformationJob raises for a job that did not complete.
CompletionError == "Job was not successful nor partially successful"

Finalization == {"post", "getVersionData", "cleanup"}

\* C20: the failure message is set only in runs that end Failed: a run that
\* is in its finalization with status Cancelled, Succeeded or
\* PartiallySucceeded (no earlier run having skipped its reset) has an empty
\* failure message.
C20_MessageOnlyWhenFailed ==
    (pc \in Finalization /\ escaped = {} /\ status # "Failed") => jobFailureErrorMessage = ""

\* The error startTransformationJob raises when startJob fails.
StartError == "Start job failed"

\* C21: the start call is issued at most once per run.  The run reaches the
\* call only from the delay after the upload, and the call either returns a
\* job id or fails; a failed call is not tried again: the start error is
\* raised with no job started and no job id stored, no poll follows, and the
\* run ends Failed, or Cancelled when a stop was requested meanwhile.
C21_StartNotRetried ==
    /\ [][(pc' = "startJob" /\ pc # "startJob") => pc = "sleepAfterUpload"]_vars
    /\ [][(pc = "startJob" /\
              (pc' # pc \/ jobFailureErrorMessage' # jobFailureErrorMessage)) =>
              \/ /\ pc' = "sleepAfterStart"
                 /\ remoteJobs' = remoteJobs \cup {RemoteJobId(runs)}
                 /\ error' = error
              \/ /\ pc' = "catch"
                 /\ error' = StartError
                 /\ jobFailureErrorMessage' = failedToStartJobMessage
                 /\ remoteJobs' = remoteJobs
                 /\ jobId' = jobId]_vars
    /\ [](error = StartError => (pc \in AfterError \/ pc \in {"done", "compiled"}))
    /\ []((error = StartError /\ pc \in Finalization) =>
              status = IF cancelRequested THEN "Cancelled" ELSE "Failed")

\* The start call of the second run failed after the first run had started
\* its job: the second run is Failed and has started none.
C21_Witness ==
    /\ runs = 2
    /\ pc = "post"
    /\ error = StartError
    /\ status = "Failed"
    /\ remoteJobs = {RemoteJobId(1)}

\* Positions of the run at which a status request of a poll is in flight or
\* a poll waits for its next one.
PollPositions == {"pollPlanGet", "pollPlanSleep", "pollCompleteGet", "pollCompleteSleep"}

\* The run enters position p in this step.
Enters(p) == pc' = p /\ pc # p

\* C24: within a run the remote operations follow each other in the order
\* upload, start, plan poll, plan fetch, completion poll, finalization, one
\* at a time, each entered only from the success of the one before: the
\* upload from the archive build, the start from the delay that follows a
\* successful upload, the plan poll from the delay that follows a successful
\* start, the plan fetch from a plan poll that returned an accepted status,
\* the completion poll from the shown plan, finalizeTransformationJob from
\* the completion poll.  No status request is issued before startJob has
\* returned the job id of the run, and generatePlan is marked Succeeded only
\* when the plan poll and the plan fetch have both succeeded.
C24_StepsInOrder ==
    /\ [][Enters("uploadPayload") => (pc = "zipCode" /\ payloadFilePath' \in files')]_vars
    /\ [][Enters("sleepAfterUpload") => (pc = "uploadPayload" /\ error' = error)]_vars
    /\ [][Enters("startJob") => pc = "sleepAfterUpload"]_vars
    /\ [][Enters("sleepAfterStart") =>
              (pc = "startJob" /\ retJobId' = RemoteJobId(runs))]_vars
    /\ [][Enters("pollPlanGet") => (pc = "sleepAfterStart" \/ pc = "pollPlanSleep")]_vars
    /\ [][Enters("pollPlanSleep") => pc = "pollPlanGet"]_vars
    /\ [][Enters("getPlan") =>
              (pc = "pollPlanGet" /\ polledStatus' \in validStatesForPlanGenerated)]_vars
    /\ [][Enters("showPlan") =>
              /\ pc = "getPlan"
              /\ error' = error
              /\ jobFailureErrorMessage' = jobFailureErrorMessage]_vars
    /\ [][Enters("pollCompleteGet") => (pc = "showPlan" \/ pc = "pollCompleteSleep")]_vars
    /\ [][Enters("pollCompleteSleep") => pc = "pollCompleteGet"]_vars
    /\ [][Enters("reviewChanges") => pc = "pollCompleteGet"]_vars
    /\ [](pc \in PollPositions =>
              (retJobId = RemoteJobId(runs) /\ RemoteJobId(runs) \in remoteJobs))
    /\ [][(sessionPlanProgress'["generatePlan"] = "Succeeded" /\
               sessionPlanProgress["generatePlan"] # "Succeeded") =>
              (pc = "showPlan" /\ polledStatus \in validStatesForPlanGenerated)]_vars

\* The first run went through every step in order and is about to mark
\* transformCode.
C24_Witness ==
    /\ runs = 1
    /\ pc = "reviewChanges"
    /\ sessionPlanProgress["generatePlan"] = "Succeeded"
    /\ retJobId = RemoteJobId(1)
    /\ payloadFilePath \in files
    /\ polledStatus = "PARTIALLY_COMPLETED"
    /\ jobFailureErrorMessage = ""

\* The id startJob returned to the current run, as setJobId stores it; empty
\* when the start call of the run has not succeeded.
JobIdOfRun ==
    IF runs >= 1 /\ RemoteJobId(runs) \in remoteJobs THEN encodeHTML(RemoteJobId(runs))
    ELSE NoJobId

\* C26: the history entry a run writes records the status the run ended with
\* and its job id, as they are before the reset: the status is Succeeded,
\* PartiallySucceeded, Failed or Cancelled, never Running or NotStarted, and
\* the id is the job id of that run, empty when its start never succeeded.
C26_HistoryRecordsOutcome ==
    (pc \in {"cleanup", "done"} /\ runs >= 1) =>
        /\ Len(sessionJobHistory) = 1
        /\ sessionJobHistory[1].status \in Outcomes \cup {"Cancelled"}
        /\ sessionJobHistory[1].id = JobIdOfRun

\* C27: at the end of a run, transformCode is Succeeded exactly when the
\* status the run recorded in the history is Succeeded or PartiallySucceeded,
\* and generatePlan is then Succeeded too; a run recorded as Failed or
\* Cancelled has transformCode Failed.
C27_TransformCodeMatchesOutcome ==
    (pc \in {"cleanup", "done"} /\ runs >= 1) =>
        LET recorded == sessionJobHistory[1].status
        IN  /\ sessionPlanProgress["transformCode"] = "Succeeded" <=>
                   recorded \in {"Succeeded", "PartiallySucceeded"}
            /\ recorded \in {"Succeeded", "PartiallySucceeded"} =>
                   sessionPlanProgress["generatePlan"] = "Succeeded"
            /\ recorded \in {"Failed", "Cancelled"} =>
                   sessionPlanProgress["transformCode"] = "Failed"

\* A run stopped during its completion poll is over: it is recorded as
\* Cancelled with the plan generated and transformCode Failed.
C27_Witness ==
    /\ pc = "done"
    /\ runs = 1
    /\ sessionJobHistory[1].status = "Cancelled"
    /\ sessionPlanProgress["generatePlan"] = "Succeeded"
    /\ sessionPlanProgress["transformCode"] = "Failed"

\* C23: the header map of an upload is made from the checksum and the KMS
\* key ARN alone: it always holds the checksum and the zip content type, and
\* it holds the two server-side-encryption fields, with aws:kms and the ARN,
\* exactly when the ARN is not empty; with an empty ARN the two fields are
\* absent, not present with an empty value.
C23_HeadersByKmsKey ==
    headersObj # NoHeaders =>
        /\ headersObj["x-amz-checksum-sha256"] = sha256
        /\ headersObj["Content-Type"] = "application/zip"
        /\ IF kmsKeyArn # ""
           THEN /\ DOMAIN headersObj =
                       {"x-amz-checksum-sha256", "Content-Type"} \cup EncryptionHeaders
                /\ headersObj["x-amz-server-side-encryption"] = "aws:kms"
                /\ headersObj["x-amz-server-side-encryption-aws-kms-key-id"] = kmsKeyArn
           ELSE DOMAIN headersObj = {"x-amz-checksum-sha256", "Content-Type"}

\* The headers of an upload without a KMS key: the two fields of the test.
C23_Witness ==
    /\ sha256 = "dummy-sha-256"
    /\ kmsKeyArn = ""
    /\ headersObj # NoHeaders
    /\ EncryptionHeaders \cap DOMAIN headersObj = {}


\* What a call of stopTransformByQ can change: everything but the record of
\* the calls.
StopEffects ==
    << jobState, sessionPlanProgress, sessionJobHistory, timers, pc, runLocals, runs,
       escaped, stopVars, cancelRequested, notifications, remoteVars, files, folders >>

\* The recorded calls of stopTransformByQ that found the job running.
ActingRequests == {k \in DOMAIN stopRequests : stopRequests[k]}

\* C25: a call of stopTransformByQ that finds the status other than Running
\* changes nothing: the status stays, no stop request goes to the service and
\* no notification is shown. So does a call made in a run that an earlier
\* call already cancelled; the service gets at most one stop request per
\* call that found the job running.
C25_StopOnlyWhenRunning ==
    /\ [][(stopRequests' # stopRequests /\ (~isRunning \/ cancelRequested)) =>
            UNCHANGED StopEffects]_vars
    /\ [](Len(stopCalls) + (IF stopPc = "stopJob" THEN 1 ELSE 0)
            <= Cardinality(ActingRequests))

\* Two calls in the first run: the first found the job running and has
\* finished, the second found it cancelled; one stop outcome was shown and at
\* most one stop request was sent.
C25_Witness ==
    /\ runs = 1
    /\ stopRequests = << TRUE, FALSE >>
    /\ status = "Cancelled"
    /\ stopPc = "idle"
    /\ Len(stopCalls) <= 1


\* C22: nothing keeps startTransformByQ from beginning while another call is
\* in progress, and the calls share the job state: a call that begins sets
\* the status to Running and every step to Pending, and a call that cleans up
\* sets the status to NotStarted and empties the job id, whatever the other
\* calls are doing.
C22_OverlapShareJobState ==
    /\ [](\A i \in Invocations : invocation[i] = "idle" => ENABLED overlapBegins(i))
    /\ [][\A i \in Invocations :
            /\ (invocation[i] = "idle" /\ invocation'[i] # "idle") =>
                   (status' = "Running" /\ \A s \in Steps : sessionPlanProgress'[s] = "Pending")
            /\ (invocation[i] = "cleanup" /\ invocation'[i] = "done") =>
                   (status' = "NotStarted" /\ jobId' = NoJobId)]_vars

\* One call has cleaned up while another, whose job the service started, is
\* still waiting for its job: the status is NotStarted and the job id is
\* empty in the middle of that call, and the history holds the other's entry.
C22_Witness ==
    \E i, j \in Invocations :
        /\ invocation[i] = "done"
        /\ i \notin escaped
        /\ invocation[j] = "pollComplete"
        /\ RemoteJobId(j) \in remoteJobs
        /\ status = "NotStarted"
        /\ jobId = NoJobId
        /\ Len(sessionJobHistory) = 1
        /\ sessionJobHistory[1].timestamp = convertDateToTimestamp(i)

====
